---------------------------- MODULE Spec2Model ----------------------------
(***************************************************************************)
(* A model of the DNS collector: the DNS wire-format decoder               *)
(* (dnsutils/dns.go), and the InfluxDB output sink (loggers).              *)
(*                                                                         *)
(* A Go byte slice is modelled as a record [data, len]: data is the        *)
(* backing array from the slice's first element up to its capacity, len    *)
(* is the slice's length.  payload[i] panics when i >= len; payload[a:b]   *)
(* panics when b > cap (not when b > len), exactly as in Go.               *)
(* Offsets are 0-based as in the source; TLA+ sequences are 1-based.       *)
(* Strings are sequences of byte values.                                   *)
(***************************************************************************)
EXTENDS Integers, Sequences, FiniteSets, TLC

\* ------------------------------------------------------------- bounds
\* longest buffer (len) of the label resolver's inputs
MaxLen == 4
\* most bytes of backing array beyond len (cap - len)
MaxSpare == 1

\* ---------------------------------------------------------- constants
DnsLen == 12

ErrDecodeDnsHeaderTooShort == "ErrDecodeDnsHeaderTooShort"
ErrDecodeDnsLabelInvalidOffset == "ErrDecodeDnsLabelInvalidOffset"
ErrDecodeDnsLabelInvalidOffsetInfiniteLoop == "ErrDecodeDnsLabelInvalidOffsetInfiniteLoop"
ErrDecodeDnsLabelTooShort == "ErrDecodeDnsLabelTooShort"
ErrDecodeQuestionQtypeTooShort == "ErrDecodeQuestionQtypeTooShort"
ErrDecodeDnsAnswerTooShort == "ErrDecodeDnsAnswerTooShort"
ErrDecodeDnsAnswerRdataTooShort == "ErrDecodeDnsAnswerRdataTooShort"
\* no error
Nil == "nil"
\* a run-time panic of the Go runtime (index or slice bounds out of range,
\* nil dereference): the process aborts
Panic == "panic"

\* ------------------------------------------------------------- slices
\* len(s)
SLen(s) == s.len
\* s[i] is in range
InLen(s, i) == 0 <= i /\ i < s.len
\* s[a:b] is in range
InCap(s, a, b) == 0 <= a /\ a <= b /\ b <= Len(s.data)
\* s[i], 0-based
At(s, i) == s.data[i + 1]
\* s[a:b]
Slice(s, a, b) == [data |-> SubSeq(s.data, a + 1, Len(s.data)), len |-> b - a]
\* the bytes of s[a:b] as a string
Bytes(s, a, b) == SubSeq(s.data, a + 1, b)
\* binary.BigEndian.Uint16(s[i:i+2])
Uint16(s, i) == At(s, i) * 256 + At(s, i + 1)
\* binary.BigEndian.Uint32(s[i:i+4]), kept as its two 16-bit halves <<hi, lo>>
\* (the value is hi * 65536 + lo, which TLC's 32-bit integers cannot hold)
Uint32(s, i) == <<Uint16(s, i), Uint16(s, i + 2)>>

RECURSIVE Itoa(_)
\* strconv.Itoa(n), fmt's %d of a small number: decimal digits, "-" (45) first
\* when negative
Itoa(n) ==
  IF n < 0 THEN <<45>> \o Itoa(0 - n)
  ELSE IF n < 10 THEN <<48 + n>>
  ELSE Itoa(n \div 10) \o <<48 + (n % 10)>>

\* four decimal digits, zeros leading
Pad4(n) == <<48 + (n \div 1000), 48 + ((n \div 100) % 10), 48 + ((n \div 10) % 10), 48 + (n % 10)>>

\* fmt's %d of a uint32 <<hi, lo>>: hi * 65536 + lo = (6 * hi + low \div 10^4) * 10^4 + low % 10^4,
\* low being hi * 5536 + lo
FormatUint32(u) ==
  LET low == u[1] * 5536 + u[2]
      upper == 6 * u[1] + (low \div 10000)
  IN IF upper = 0 THEN Itoa(low % 10000) ELSE Itoa(upper) \o Pad4(low % 10000)

\* fmt's %d of int32(u): two's complement
FormatInt32(u) ==
  IF u[1] < 32768 THEN FormatUint32(u)
  ELSE IF u[2] = 0 THEN <<45>> \o FormatUint32(<<65536 - u[1], 0>>)
  ELSE <<45>> \o FormatUint32(<<65535 - u[1], 65536 - u[2]>>)

RECURSIVE FormatHex(_)
\* fmt's %x of a uint16: lower-case hexadecimal, no leading zeros
FormatHex(n) ==
  LET HexDigit(d) == IF d < 10 THEN 48 + d ELSE 87 + d
  IN IF n < 16 THEN <<HexDigit(n)>> ELSE FormatHex(n \div 16) \o <<HexDigit(n % 16)>>

\* strings.Join(parts, sep)
RECURSIVE JoinWith(_, _)
JoinWith(parts, sep) ==
  IF Len(parts) = 0 THEN <<>>
  ELSE IF Len(parts) = 1 THEN parts[1]
  ELSE parts[1] \o sep \o JoinWith(Tail(parts), sep)

\* strings.Join(labels, "."), "." being byte 46
RECURSIVE Join(_)
Join(labels) ==
  IF Len(labels) = 0 THEN <<>>
  ELSE IF Len(labels) = 1 THEN labels[1]
  ELSE labels[1] \o <<46>> \o Join(Tail(labels))

\* ----------------------------------------------------- label resolver
\* the result of ParseLabels: (string, int, error)
LabelsRet(name, offset, err) == [name |-> name, offset |-> offset, err |-> err]

\* length>>6 == 3
IsPointer(length) == length \div 64 = 3

\* binary.BigEndian.Uint16(payload[offset:offset+2]) & 16383
PtrTarget(payload, offset) == Uint16(payload, offset) % 16384

\* _, exist := pointers[ptr]
Exist_Off(ptr, pointers) == FALSE
Exist(ptr, pointers) == ptr \in pointers

\* the literal label at offset does not fit
LabelTooShort_Gt(offset, length, payload) == offset + length + 1 > SLen(payload)
LabelTooShort(offset, length, payload) == offset + length + 1 >= SLen(payload)

\* the length-or-pointer octet is outside the buffer
BadOffset(offset, payload) == offset >= SLen(payload)

RECURSIVE ParseLabelsLoop(_, _, _, _)
\* the loop of _ParseLabels, labels being the labels collected so far
ParseLabelsLoop(offset, payload, pointers, labels) ==
  IF BadOffset(offset, payload)
  THEN LabelsRet(<<>>, 0, ErrDecodeDnsLabelInvalidOffset)
  ELSE LET length == At(payload, offset) IN
    IF length = 0 THEN LabelsRet(Join(labels), offset + 1, Nil)
    ELSE IF IsPointer(length) THEN
      IF ~InCap(payload, offset, offset + 2) THEN LabelsRet(<<>>, 0, Panic)
      ELSE LET ptr == PtrTarget(payload, offset) IN
        IF Exist(ptr, pointers)
        THEN LabelsRet(<<>>, 0, ErrDecodeDnsLabelInvalidOffsetInfiniteLoop)
        ELSE LET r == ParseLabelsLoop(ptr, payload, pointers \cup {ptr}, <<>>) IN
          IF r.err # Nil THEN LabelsRet(<<>>, 0, r.err)
          ELSE LabelsRet(Join(Append(labels, r.name)), offset + 2, Nil)
    ELSE
      IF LabelTooShort(offset, length, payload)
      THEN LabelsRet(<<>>, 0, ErrDecodeDnsLabelTooShort)
      ELSE ParseLabelsLoop(offset + length + 1, payload, pointers,
                           Append(labels, Bytes(payload, offset + 1, offset + length + 1)))

ParseLabelsRec(offset, payload, pointers) == ParseLabelsLoop(offset, payload, pointers, <<>>)

\* ptrs := make(map[uint16]int)
NewPtrs_Stale(old) == old
NewPtrs(old) == {}

ParseLabels(offset, payload) == ParseLabelsRec(offset, payload, NewPtrs({}))


\* ------------------------------------------------------ lookup tables
Rdatatypes ==
  [t \in {0, 1, 2, 3, 4, 5, 6, 7, 8, 9, 10, 11, 12, 13, 14, 15, 16, 17, 18, 19, 20,
          21, 22, 23, 24, 25, 26, 27, 28, 29, 30, 33, 35, 36, 37, 38, 39, 41, 42, 43,
          44, 45, 46, 47, 48, 49, 50, 51, 52, 53, 55, 56, 59, 60, 61, 62, 64, 65, 99,
          103, 108, 109, 249, 250, 251, 252, 253, 254, 255, 256, 257, 258, 259,
          32768, 32769} |->
     CASE t = 0 -> "NONE" [] t = 1 -> "A" [] t = 2 -> "NS" [] t = 3 -> "MD"
       [] t = 4 -> "MF" [] t = 5 -> "CNAME" [] t = 6 -> "SOA" [] t = 7 -> "MB"
       [] t = 8 -> "MG" [] t = 9 -> "MR" [] t = 10 -> "NULL" [] t = 11 -> "WKS"
       [] t = 12 -> "PTR" [] t = 13 -> "HINFO" [] t = 14 -> "MINFO" [] t = 15 -> "MX"
       [] t = 16 -> "TXT" [] t = 17 -> "RP" [] t = 18 -> "AFSDB" [] t = 19 -> "X25"
       [] t = 20 -> "ISDN" [] t = 21 -> "RT" [] t = 22 -> "NSAP" [] t = 23 -> "NSAP_PTR"
       [] t = 24 -> "SIG" [] t = 25 -> "KEY" [] t = 26 -> "PX" [] t = 27 -> "GPOS"
       [] t = 28 -> "AAAA" [] t = 29 -> "LOC" [] t = 30 -> "NXT" [] t = 33 -> "SRV"
       [] t = 35 -> "NAPTR" [] t = 36 -> "KX" [] t = 37 -> "CERT" [] t = 38 -> "A6"
       [] t = 39 -> "DNAME" [] t = 41 -> "OPT" [] t = 42 -> "APL" [] t = 43 -> "DS"
       [] t = 44 -> "SSHFP" [] t = 45 -> "IPSECKEY" [] t = 46 -> "RRSIG"
       [] t = 47 -> "NSEC" [] t = 48 -> "DNSKEY" [] t = 49 -> "DHCID"
       [] t = 50 -> "NSEC3" [] t = 51 -> "NSEC3PARAM" [] t = 52 -> "TSLA"
       [] t = 53 -> "SMIMEA" [] t = 55 -> "HIP" [] t = 56 -> "NINFO" [] t = 59 -> "CDS"
       [] t = 60 -> "CDNSKEY" [] t = 61 -> "OPENPGPKEY" [] t = 62 -> "CSYNC"
       [] t = 64 -> "SVCB" [] t = 65 -> "HTTPS" [] t = 99 -> "SPF"
       [] t = 103 -> "UNSPEC" [] t = 108 -> "EUI48" [] t = 109 -> "EUI64"
       [] t = 249 -> "TKEY" [] t = 250 -> "TSIG" [] t = 251 -> "IXFR"
       [] t = 252 -> "AXFR" [] t = 253 -> "MAILB" [] t = 254 -> "MAILA"
       [] t = 255 -> "ANY" [] t = 256 -> "URI" [] t = 257 -> "CAA" [] t = 258 -> "AVC"
       [] t = 259 -> "AMTRELAY" [] t = 32768 -> "TA" [] t = 32769 -> "DLV"]

RdatatypeToString(rrtype) ==
  IF rrtype \in DOMAIN Rdatatypes THEN Rdatatypes[rrtype] ELSE "UNKNOWN"

\* ------------------------------------------------------ header decoder
\* x >> n, x & (2^n - 1)
Shr(x, n) == x \div (2 ^ n)
Low4(x) == x % 16
Low1(x) == x % 2

\* the opcode field of the flags word
OpcodeOf_Shift10(w) == Low4(Shr(w, 2 + 8))
OpcodeOf(w) == Low4(Shr(w, 3 + 8))

DecodeDns(payload) ==
  IF SLen(payload) < DnsLen
  THEN [err |-> ErrDecodeDnsHeaderTooShort,
        dh |-> [Id |-> 0, Qr |-> 0, Opcode |-> 0, Aa |-> 0, Tc |-> 0, Rd |-> 0,
                Ra |-> 0, Z |-> 0, Ad |-> 0, Cd |-> 0, Rcode |-> 0,
                Qdcount |-> 0, Ancount |-> 0, Nscount |-> 0, Arcount |-> 0]]
  ELSE LET w == Uint16(payload, 2) IN
       [err |-> Nil,
        dh |-> [Id |-> Uint16(payload, 0),
                Qr |-> Shr(w, 15),
                Opcode |-> OpcodeOf(w),
                Aa |-> Low1(Shr(w, 2 + 8)),
                Tc |-> Low1(Shr(w, 1 + 8)),
                Rd |-> Low1(Shr(w, 8)),
                Cd |-> Low1(Shr(w, 4)),
                Ad |-> Low1(Shr(w, 5)),
                Z |-> Low1(Shr(w, 6)),
                Ra |-> Low1(Shr(w, 7)),
                Rcode |-> Low4(w),
                Qdcount |-> Uint16(payload, 4),
                Ancount |-> Uint16(payload, 6),
                Nscount |-> Uint16(payload, 8),
                Arcount |-> Uint16(payload, 10)]]

\* ---------------------------------------------------- question decoder
QuestionRet(qname, qtype, offset, err) ==
  [qname |-> qname, qtype |-> qtype, offset |-> offset, err |-> err]

DecodeQuestion(payload) ==
  LET l == ParseLabels(DnsLen, payload) IN
  IF l.err # Nil THEN QuestionRet(<<>>, 0, 0, l.err)
  ELSE IF ~InCap(payload, l.offset, SLen(payload)) THEN QuestionRet(<<>>, 0, 0, Panic)
  ELSE IF SLen(payload) - l.offset < 4
       THEN QuestionRet(<<>>, 0, 0, ErrDecodeQuestionQtypeTooShort)
  ELSE QuestionRet(l.name, Uint16(payload, l.offset), l.offset + 4, Nil)

\* ------------------------------------------------- resource-data parsers
RdataRet(ret, err) == [ret |-> ret, err |-> err]

ParseA(r) ==
  RdataRet(JoinWith([i \in 1..SLen(r) |-> Itoa(At(r, i - 1))], <<46>>), Nil)

\* the loop of ParseAAAA from index i on, ip being the groups rendered so far
RECURSIVE ParseAAAALoop(_, _, _)
ParseAAAALoop(rdata, i, ip) ==
  IF ~(i < SLen(rdata)) THEN RdataRet(JoinWith(ip, <<58>>), Nil)
  ELSE IF ~InCap(rdata, i, i + 2) THEN RdataRet(<<>>, Panic)
  ELSE ParseAAAALoop(rdata, i + 2, Append(ip, FormatHex(Uint16(rdata, i))))

ParseAAAA(rdata) == ParseAAAALoop(rdata, 0, <<>>)

ParseCNAME(rdata_offset, payload) ==
  LET l == ParseLabels(rdata_offset, payload) IN
  IF l.err # Nil THEN RdataRet(<<>>, l.err) ELSE RdataRet(l.name, l.err)

ParseMX(rdata_offset, payload) ==
  IF ~InCap(payload, rdata_offset, rdata_offset + 2) THEN RdataRet(<<>>, Panic)
  ELSE LET pref == Uint16(payload, rdata_offset)
           l == ParseLabels(rdata_offset + 2, payload)
       IN IF l.err # Nil THEN RdataRet(<<>>, l.err)
          ELSE RdataRet(Itoa(pref) \o <<32>> \o l.name, l.err)

ParseSRV(rdata_offset, payload) ==
  IF ~InCap(payload, rdata_offset, rdata_offset + 6) THEN RdataRet(<<>>, Panic)
  ELSE LET priority == Uint16(payload, rdata_offset)
           weight == Uint16(payload, rdata_offset + 2)
           port == Uint16(payload, rdata_offset + 4)
           l == ParseLabels(rdata_offset + 6, payload)
       IN IF l.err # Nil THEN RdataRet(<<>>, l.err)
          ELSE RdataRet(Itoa(priority) \o <<32>> \o Itoa(weight) \o <<32>>
                          \o Itoa(port) \o <<32>> \o l.name, l.err)

ParseNS(rdata_offset, payload) ==
  LET l == ParseLabels(rdata_offset, payload) IN
  IF l.err # Nil THEN RdataRet(<<>>, l.err) ELSE RdataRet(l.name, l.err)

ParseTXT(rdata) ==
  IF ~InLen(rdata, 0) THEN RdataRet(<<>>, Panic)
  ELSE LET length == At(rdata, 0) IN
       IF ~InCap(rdata, 1, length + 1) THEN RdataRet(<<>>, Panic)
       ELSE RdataRet(Bytes(rdata, 1, length + 1), Nil)

ParsePTR(rdata_offset, payload) ==
  LET l == ParseLabels(rdata_offset, payload) IN
  IF l.err # Nil THEN RdataRet(<<>>, l.err) ELSE RdataRet(l.name, l.err)

ParseSOA(rdata_offset, payload) ==
  LET primaryNS == ParseLabels(rdata_offset, payload) IN
  IF primaryNS.err # Nil THEN RdataRet(<<>>, primaryNS.err)
  ELSE LET respMailbox == ParseLabels(primaryNS.offset, payload) IN
    IF respMailbox.err # Nil THEN RdataRet(<<>>, respMailbox.err)
    ELSE IF ~InCap(payload, respMailbox.offset, SLen(payload)) THEN RdataRet(<<>>, Panic)
    ELSE LET rdata == Slice(payload, respMailbox.offset, SLen(payload)) IN
      IF ~InCap(rdata, 16, 20) THEN RdataRet(<<>>, Panic)
      ELSE RdataRet(primaryNS.name \o <<32>> \o respMailbox.name
                      \o <<32>> \o FormatUint32(Uint32(rdata, 0))
                      \o <<32>> \o FormatInt32(Uint32(rdata, 4))
                      \o <<32>> \o FormatInt32(Uint32(rdata, 8))
                      \o <<32>> \o FormatInt32(Uint32(rdata, 12))
                      \o <<32>> \o FormatUint32(Uint32(rdata, 16)), Nil)

ParseRdata(rdatatype, rdata, payload, rdata_offset) ==
  CASE rdatatype = "A" -> ParseA(rdata)
    [] rdatatype = "AAAA" -> ParseAAAA(rdata)
    [] rdatatype = "CNAME" -> ParseCNAME(rdata_offset, payload)
    [] rdatatype = "MX" -> ParseMX(rdata_offset, payload)
    [] rdatatype = "SRV" -> ParseSRV(rdata_offset, payload)
    [] rdatatype = "NS" -> ParseNS(rdata_offset, payload)
    [] rdatatype = "TXT" -> ParseTXT(rdata)
    [] rdatatype = "PTR" -> ParsePTR(rdata_offset, payload)
    [] rdatatype = "SOA" -> ParseSOA(rdata_offset, payload)
    [] OTHER -> RdataRet(<<45>>, Nil)

\* ------------------------------------------------ answer-section decoder
AnswerRet(answers, offset, err) == [answers |-> answers, offset |-> offset, err |-> err]

\* if t == 41 { continue }: where the cursor stands when an OPT record is skipped
OptOffset_Advance(offset, offset_next, rdlength) == offset_next + 10 + rdlength
OptOffset(offset, offset_next, rdlength) == offset

\* offset = offset_next + 10 + int(rdlength)
NextOffset_NoRdata(offset_next, rdlength) == offset_next + 10
NextOffset(offset_next, rdlength) == offset_next + 10 + rdlength

RECURSIVE DecodeAnswerLoop(_, _, _, _, _)
\* the loop of DecodeAnswer from iteration i on
DecodeAnswerLoop(i, ancount, offset, answers, payload) ==
  IF ~(i < ancount) THEN AnswerRet(answers, offset, Nil)
  ELSE LET l == ParseLabels(offset, payload)
           offset_next == l.offset
       IN
    IF l.err = Panic THEN AnswerRet(<<>>, 0, Panic)
    ELSE IF l.err # Nil THEN AnswerRet(answers, offset, l.err)
    ELSE IF ~InCap(payload, offset_next, SLen(payload)) THEN AnswerRet(<<>>, 0, Panic)
    ELSE IF SLen(payload) - offset_next < 10
         THEN AnswerRet(answers, offset, ErrDecodeDnsAnswerTooShort)
    ELSE LET t == Uint16(payload, offset_next)
             class == Uint16(payload, offset_next + 2)
             ttl == Uint32(payload, offset_next + 4)
             rdlength == Uint16(payload, offset_next + 8)
         IN
      IF SLen(payload) - (offset_next + 10) < rdlength
      THEN AnswerRet(answers, offset, ErrDecodeDnsAnswerRdataTooShort)
      ELSE LET rdata == Slice(payload, offset_next + 10, offset_next + 10 + rdlength) IN
        IF t = 41
        THEN DecodeAnswerLoop(i + 1, ancount, OptOffset(offset, offset_next, rdlength),
                              answers, payload)
        ELSE LET rdatatype == RdatatypeToString(t)
                 parsed == ParseRdata(rdatatype, rdata, payload, offset_next + 10)
             IN
          IF parsed.err = Panic THEN AnswerRet(<<>>, 0, Panic)
          ELSE IF parsed.err # Nil THEN AnswerRet(answers, offset, parsed.err)
          ELSE DecodeAnswerLoop(i + 1, ancount, NextOffset(offset_next, rdlength),
                                Append(answers,
                                       [Name |-> l.name, Rdatatype |-> rdatatype,
                                        Class |-> class, Ttl |-> ttl,
                                        Rdata |-> parsed.ret]),
                                payload)

\* for i := 0; i < ancount; i++: the loop begins at iteration 0
DecodeAnswer_FromOne(ancount, start_offset, payload) ==
  DecodeAnswerLoop(1, ancount, start_offset, <<>>, payload)
DecodeAnswer(ancount, start_offset, payload) ==
  DecodeAnswerLoop(0, ancount, start_offset, <<>>, payload)

\* --------------------------------------------------- filtering subprocessor
\* Strings the code compares or transforms character by character (query IPs,
\* names, lines of the list files) are sequences of one-character strings.

\* dnsutils.DnsQuery, dnsutils.DnsReply: the two values of dm.DNS.Type
DnsQuery == "QUERY"
DnsReply == "REPLY"

\* a Go map: nil until made; its keys (the values are fixed by the keys)
NilMap == [isnil |-> TRUE, keys |-> {}]
MakeMap == [isnil |-> FALSE, keys |-> {}]
\* len(m)
MapLen(m) == Cardinality(m.keys)

\* strings.ToLower
LowerChar(c) == CASE c = "A" -> "a" [] c = "B" -> "b" [] OTHER -> c
ToLower(s) == [i \in 1..Len(s) |-> LowerChar(s[i])]

\* regexp: "^" and "$" are the text boundaries, "." is any character but a
\* newline, "(" opens a group, every other character stands for itself
RECURSIVE MatchAt(_, _, _, _)
MatchAt(pat, i, s, j) ==
  IF i > Len(pat) THEN TRUE
  ELSE IF pat[i] = "^" THEN j = 1 /\ MatchAt(pat, i + 1, s, j)
  ELSE IF pat[i] = "$" THEN j = Len(s) + 1 /\ MatchAt(pat, i + 1, s, j)
  ELSE IF pat[i] = "." THEN j <= Len(s) /\ MatchAt(pat, i + 1, s, j + 1)
  ELSE j <= Len(s) /\ s[j] = pat[i] /\ MatchAt(pat, i + 1, s, j + 1)
\* p.MatchString(dm.DNS.Qname): the pattern matches somewhere in s
MatchString(pat, s) == \E j \in 1..(Len(s) + 1) : MatchAt(pat, 1, s, j)
\* regexp.MustCompile panics on a pattern that does not parse: a group never closed
CompilePanics(pat) == \E i \in 1..Len(pat) : pat[i] = "("

\* a list file named in the config: not configured (empty path), configured
\* and os.Open fails, or configured and read line by line by the scanner
NoFile == [configured |-> FALSE, readable |-> FALSE, lines |-> <<>>]
Unreadable == [configured |-> TRUE, readable |-> FALSE, lines |-> <<>>]
Readable(lines) == [configured |-> TRUE, readable |-> TRUE, lines |-> lines]

\* FilteringProcessor{config, logger, listFqdns: make(...), listDomainsRegex: make(...)}
NewProcessor ==
  [dropDomains |-> FALSE, listQueryIp |-> NilMap, listFqdns |-> MakeMap,
   listDomainsRegex |-> MakeMap, err |-> Nil]

\* for scanner.Scan() { m[strings.ToLower(scanner.Text())] = true }
\* the first store into a nil map panics: assignment to entry in nil map
StorePanics(m, lines) == m.isnil /\ lines # <<>>
\* the map after the loop, when no store panics
RECURSIVE StoreLines(_, _)
StoreLines(m, lines) ==
  IF lines = <<>> THEN m
  ELSE StoreLines([m EXCEPT !.keys = @ \cup {ToLower(Head(lines))}], Tail(lines))

\* the same loop for the regex list, p.listDomainsRegex[domain] =
\* regexp.MustCompile(domain): a line that does not compile panics as well
RegexPanics(m, lines) ==
  lines # <<>> /\ (m.isnil \/ \E i \in 1..Len(lines) : CompilePanics(ToLower(lines[i])))

\* LoadDomainsList: the fqdn file, then the regex file
LoadFqdns(p, cfg) ==
  IF ~cfg.DropFqdnFile.configured THEN p
  ELSE IF ~cfg.DropFqdnFile.readable THEN [p EXCEPT !.dropDomains = TRUE]
  ELSE IF StorePanics(p.listFqdns, cfg.DropFqdnFile.lines) THEN [p EXCEPT !.err = Panic]
  ELSE [p EXCEPT !.listFqdns = StoreLines(@, cfg.DropFqdnFile.lines), !.dropDomains = TRUE]
LoadRegex(p, cfg) ==
  IF ~cfg.DropDomainFile.configured THEN p
  ELSE IF ~cfg.DropDomainFile.readable THEN [p EXCEPT !.dropDomains = TRUE]
  ELSE IF RegexPanics(p.listDomainsRegex, cfg.DropDomainFile.lines)
       THEN [p EXCEPT !.err = Panic]
  ELSE [p EXCEPT !.listDomainsRegex = StoreLines(@, cfg.DropDomainFile.lines),
                 !.dropDomains = TRUE]
LoadDomainsList(p, cfg) ==
  LET q == LoadFqdns(p, cfg) IN IF q.err = Panic THEN q ELSE LoadRegex(q, cfg)

\* LoadQueryIpList
LoadQueryIpList(p, cfg) ==
  IF ~cfg.DropQueryIpFile.configured THEN p
  ELSE IF ~cfg.DropQueryIpFile.readable THEN p
  ELSE IF StorePanics(p.listQueryIp, cfg.DropQueryIpFile.lines) THEN [p EXCEPT !.err = Panic]
  ELSE [p EXCEPT !.listQueryIp = StoreLines(@, cfg.DropQueryIpFile.lines)]

\* NewFilteringProcessor: the processor it returns, err = Panic if it aborts
NewFilteringProcessor(cfg) ==
  LET d == LoadDomainsList(NewProcessor, cfg) IN
    IF d.err = Panic THEN d ELSE LoadQueryIpList(d, cfg)

\* CheckIfDrop, rule by rule
\* !LogQueries && dm.DNS.Type == DnsQuery
IgnoreQuery_Never(cfg, m) == FALSE
IgnoreQuery(cfg, m) == ~cfg.LogQueries /\ m.Type = DnsQuery
\* !LogReplies && dm.DNS.Type == DnsReply
IgnoreReply(cfg, m) == ~cfg.LogReplies /\ m.Type = DnsReply
\* for _, v := range DropRcodes { if v == dm.DNS.Rcode ...
DropRcode(cfg, m) == \E i \in 1..Len(cfg.DropRcodes) : cfg.DropRcodes[i] = m.Rcode
\* if len(p.listQueryIp) > 0 { for k := range p.listQueryIp ...
DropQueryIp(p, m) == MapLen(p.listQueryIp) > 0 /\ \E k \in p.listQueryIp.keys : m.QueryIp = k
\* if p.dropDomains { ... }
DropDomain(p, m) ==
  /\ p.dropDomains
  /\ \/ \E k \in p.listFqdns.keys : m.Qname = k
     \/ \E pat \in p.listDomainsRegex.keys : MatchString(pat, m.Qname)

CheckIfDrop(p, cfg, m) ==
  IF IgnoreQuery(cfg, m) THEN TRUE
  ELSE IF IgnoreReply(cfg, m) THEN TRUE
  ELSE IF DropRcode(cfg, m) THEN TRUE
  ELSE IF DropQueryIp(p, m) THEN TRUE
  ELSE IF DropDomain(p, m) THEN TRUE
  ELSE FALSE

VARIABLES
  payload,    \* the packet buffer handed to the decoder
  start,      \* label machine: the offset given to the running ParseLabels call
  stack,      \* label machine: the frames of _ParseLabels, innermost last
  pointers,   \* label machine: the pointer-visited map of the running call
  pcL,        \* label machine: "idle", "loop", "ret" or "done"
  retv,       \* label machine: the value a returning frame hands to its caller
  lres,       \* label machine: what the last ParseLabels call returned
  second,     \* label machine: the running call is the second one on this packet
  first,      \* label machine: start offset, result and visited map of the first call
  call,       \* decoder: the last decoder function called, with its arguments
  res,        \* decoder: what that call returned
  recs,       \* decoder: the resource records the packet was built from
  chain,      \* decoder: the single-record DecodeAnswer calls chained since that call
  channel,    \* sink: the messages queued on o.channel
  chClosed,   \* sink: o.channel is closed
  doneClosed, \* sink: o.done is closed
  influxdbConn, \* sink: o.influxdbConn, "nil" until Run assigns it
  writeAPI,   \* sink: o.writeAPI, "nil" until Run assigns it
  pcR,        \* sink: where Run stands
  pcS,        \* sink: where Stop stands
  dm,         \* sink: the message Run took from the queue
  log,        \* sink: the calls made on the InfluxDB client, in order
  nsent,      \* sink: how many messages the producer has queued
  stopInLoop, \* sink: Run was in its delivery loop when Stop was called
  fconfig,    \* filter: config.Subprocessors.Filtering, and what the files it names hold
  proc,       \* filter: the FilteringProcessor
  pcF,        \* filter: "off", "ready" once constructed, "panic" if construction aborted
  fdm,        \* filter: the message the caller holds
  fret        \* filter: what CheckIfDrop returned for it, "none" before the call

varsL == <<start, stack, pointers, pcL, retv, lres, second, first>>
varsD == <<call, res, recs, chain>>
varsS == <<channel, chClosed, doneClosed, influxdbConn, writeAPI, pcR, pcS, dm, log,
           nsent, stopInLoop>>
varsF == <<fconfig, proc, pcF, fdm, fret>>
vars == <<payload, varsL, varsD, varsS, varsF>>

\* ------------------------------------------- inputs of the label machine
LabelBytes == {0, 1, 2, 192}

SeqsUpTo(S, n) == UNION {[1..k -> S] : k \in 0..n}

\* the bytes that may lie behind the buffer, in its backing array
SpareBytes == {0, 192}

\* every buffer over LabelBytes of length <= MaxLen, with up to MaxSpare
\* more bytes of capacity behind it
LabelPayloads ==
  {[data |-> d \o sp, len |-> Len(d)] :
     <<d, sp>> \in SeqsUpTo(LabelBytes, MaxLen) \X SeqsUpTo(SpareBytes, MaxSpare)}

NoRet == LabelsRet(<<>>, 0, "none")
NoFirst == [start |-> -1, err |-> "none", pointers |-> {}]

\* no ParseLabels call has been made
IdleL ==
  /\ start = -1
  /\ stack = <<>>
  /\ pointers = {}
  /\ pcL = "idle"
  /\ retv = NoRet
  /\ lres = NoRet
  /\ second = FALSE
  /\ first = NoFirst

NoCall == [op |-> "none", ancount |-> 0, start_offset |-> 0]
\* no single-record call chained yet: the cursor stands at offset
NoChain(offset) == [n |-> 0, answers |-> <<>>, offset |-> offset, err |-> Nil]
\* no decoder function has been called
IdleD ==
  /\ call = NoCall
  /\ res = [err |-> "none"]
  /\ recs = <<>>
  /\ chain = NoChain(0)

\* the sink as NewInfluxDBClient leaves it, Run not launched
IdleS ==
  /\ channel = <<>>
  /\ chClosed = FALSE
  /\ doneClosed = FALSE
  /\ influxdbConn = "nil"
  /\ writeAPI = "nil"
  /\ pcR = "off"
  /\ pcS = "off"
  /\ dm = 0
  /\ log = <<>>
  /\ nsent = 0
  /\ stopInLoop = FALSE

NoConfig ==
  [LogQueries |-> TRUE, LogReplies |-> TRUE, DropRcodes |-> <<>>,
   DropQueryIpFile |-> NoFile, DropFqdnFile |-> NoFile, DropDomainFile |-> NoFile]
NoMessage == [Type |-> DnsQuery, Rcode |-> "NOERROR", Qname |-> <<>>, QueryIp |-> <<>>]
\* no filtering processor has been made
IdleF ==
  /\ fconfig = NoConfig
  /\ proc = NewProcessor
  /\ pcF = "off"
  /\ fdm = NoMessage
  /\ fret = "none"

InitL ==
  /\ payload \in LabelPayloads
  /\ IdleL
  /\ IdleD
  /\ IdleS
  /\ IdleF

\* --------------------------------------------- the label machine's steps
Frame(offset, labels) == [offset |-> offset, labels |-> labels]
Top == stack[Len(stack)]
Pop == SubSeq(stack, 1, Len(stack) - 1)
ReplaceTop(f) == [stack EXCEPT ![Len(stack)] = f]

\* return v from the innermost frame to its caller
ReturnFromTop(v) ==
  /\ retv' = v
  /\ stack' = Pop
  /\ pcL' = "ret"
  /\ UNCHANGED <<varsD, varsS, varsF, payload, start, pointers, lres, second, first>>

\* ParseLabels(offset, payload): a first name of the packet, or a second one
\* once the first call has returned
CallParseLabels(offset) ==
  /\ \/ pcL = "idle" /\ second' = FALSE /\ first' = first
     \/ /\ pcL = "done" /\ ~second /\ lres.err # Panic
        /\ second' = TRUE
        /\ first' = [start |-> start, err |-> lres.err, pointers |-> pointers]
  /\ start' = offset
  /\ pointers' = NewPtrs(pointers)
  /\ stack' = <<Frame(offset, <<>>)>>
  /\ pcL' = "loop"
  /\ UNCHANGED <<varsD, varsS, varsF, payload, retv, lres>>

\* if offset >= len(payload) { return "", 0, ErrDecodeDnsLabelInvalidOffset }
StepInvalidOffset ==
  /\ pcL = "loop"
  /\ BadOffset(Top.offset, payload)
  /\ ReturnFromTop(LabelsRet(<<>>, 0, ErrDecodeDnsLabelInvalidOffset))

\* if length == 0 { offset++; break }, then the final return
StepZero ==
  /\ pcL = "loop"
  /\ ~BadOffset(Top.offset, payload)
  /\ At(payload, Top.offset) = 0
  /\ ReturnFromTop(LabelsRet(Join(Top.labels), Top.offset + 1, Nil))

\* if length>>6 == 3 { ... }: up to the recursive call
StepPointer ==
  /\ pcL = "loop"
  /\ ~BadOffset(Top.offset, payload)
  /\ At(payload, Top.offset) # 0
  /\ IsPointer(At(payload, Top.offset))
  /\ IF ~InCap(payload, Top.offset, Top.offset + 2)
     THEN \* payload[offset:offset+2] is out of range: the process aborts
          /\ pcL' = "done"
          /\ lres' = LabelsRet(<<>>, 0, Panic)
          /\ stack' = <<>>
          /\ UNCHANGED <<varsD, varsS, varsF, payload, start, pointers, retv, second, first>>
     ELSE LET ptr == PtrTarget(payload, Top.offset) IN
          IF Exist(ptr, pointers)
          THEN ReturnFromTop(LabelsRet(<<>>, 0, ErrDecodeDnsLabelInvalidOffsetInfiniteLoop))
          ELSE /\ pointers' = pointers \cup {ptr}
               /\ stack' = Append(stack, Frame(ptr, <<>>))
               /\ UNCHANGED <<varsD, varsS, varsF, payload, start, pcL, retv, lres, second, first>>

\* the else branch: a literal label
StepLabel ==
  /\ pcL = "loop"
  /\ ~BadOffset(Top.offset, payload)
  /\ At(payload, Top.offset) # 0
  /\ ~IsPointer(At(payload, Top.offset))
  /\ LET length == At(payload, Top.offset) IN
     IF LabelTooShort(Top.offset, length, payload)
     THEN ReturnFromTop(LabelsRet(<<>>, 0, ErrDecodeDnsLabelTooShort))
     ELSE /\ stack' = ReplaceTop(Frame(Top.offset + length + 1,
                         Append(Top.labels,
                                Bytes(payload, Top.offset + 1, Top.offset + length + 1))))
          /\ UNCHANGED <<varsD, varsS, varsF, payload, start, pointers, pcL, retv, lres, second, first>>

\* back in the caller after label, _, err := _ParseLabels(int(ptr), ...):
\* the error is passed on, or the label appended, offset += 2, break, return
StepReturn ==
  /\ pcL = "ret"
  /\ stack # <<>>
  /\ IF retv.err # Nil
     THEN ReturnFromTop(LabelsRet(<<>>, 0, retv.err))
     ELSE ReturnFromTop(LabelsRet(Join(Append(Top.labels, retv.name)), Top.offset + 2, Nil))

\* the outermost _ParseLabels returns to the caller of ParseLabels
StepFinish ==
  /\ pcL = "ret"
  /\ stack = <<>>
  /\ pcL' = "done"
  /\ lres' = retv
  /\ UNCHANGED <<varsD, varsS, varsF, payload, start, stack, pointers, retv, second, first>>

StepL == StepInvalidOffset \/ StepZero \/ StepPointer \/ StepLabel \/ StepReturn \/ StepFinish

NextL ==
  \/ \E offset \in 0..SLen(payload) : CallParseLabels(offset)
  \/ StepL

\* a call, once made, runs to its return
SpecLabels == InitL /\ [][NextL]_vars /\ WF_vars(StepL)

\* the step machine and the recursive operator compute the same result
MachineAgrees == pcL = "done" => lres = ParseLabels(start, payload)

\* ------------------------------------------- claims on the label resolver
\* What a name is, read off the wire format alone (RFC 1035 4.1.4), for
\* stating the claims: nothing below uses the resolver's definitions.
InBuf(o) == 0 <= o /\ o < payload.len
Octet(o) == payload.data[o + 1]

RECURSIVE ChainNext(_)
\* the target of the first compression pointer of the name at o, every octet
\* read on the way lying inside the buffer; -1 when there is none
ChainNext(o) ==
  IF ~InBuf(o) THEN -1
  ELSE IF Octet(o) = 0 THEN -1
  ELSE IF Octet(o) >= 192
       THEN IF InBuf(o + 1) THEN (Octet(o) - 192) * 256 + Octet(o + 1) ELSE -1
  ELSE IF o + Octet(o) < payload.len THEN ChainNext(o + 1 + Octet(o))
  ELSE -1

RECURSIVE ChainHops(_, _)
\* n pointers can be followed from o
ChainHops(o, n) ==
  IF n = 0 THEN TRUE
  ELSE ChainNext(o) # -1 /\ ChainHops(ChainNext(o), n - 1)

\* the pointers reached from o form a cycle: more pointers can be followed
\* than the buffer has offsets
CyclicChain(o) == ChainHops(o, payload.len + 1)

RECURSIVE ChainTargets(_, _)
\* the pointer targets reached from o in at most n hops
ChainTargets(o, n) ==
  IF n = 0 \/ ChainNext(o) = -1 THEN {}
  ELSE {ChainNext(o)} \cup ChainTargets(ChainNext(o), n - 1)

RECURSIVE WellFormedName(_, _)
\* the name at o is complete: labels and at most n pointers, every octet
\* inside the buffer, ending in a zero octet
WellFormedName(o, n) ==
  /\ InBuf(o)
  /\ \/ Octet(o) = 0
     \/ /\ Octet(o) >= 192
        /\ InBuf(o + 1)
        /\ n > 0
        /\ WellFormedName((Octet(o) - 192) * 256 + Octet(o + 1), n - 1)
     \/ /\ Octet(o) > 0
        /\ Octet(o) < 192
        /\ o + Octet(o) < payload.len
        /\ WellFormedName(o + 1 + Octet(o), n)

\* nested _ParseLabels calls below the outermost one
Depth == IF stack = <<>> THEN 0 ELSE Len(stack) - 1

\* C1: on a name whose compression pointers form a cycle (every octet inside
\* the buffer) ParseLabels returns the infinite-loop error, its recursion is
\* never deeper than the number of distinct pointer targets of the chain,
\* and the call, once started, returns.
C1_CycleSafe ==
  (pcL # "idle" /\ CyclicChain(start)) =>
     /\ Depth <= Cardinality(ChainTargets(start, payload.len + 1))
     /\ pcL = "done" => lres.err = ErrDecodeDnsLabelInvalidOffsetInfiniteLoop
C1_CycleTerminates ==
  /\ []C1_CycleSafe
  /\ (pcL = "loop" /\ CyclicChain(start)) ~> (pcL = "done")
\* a mutual cycle of two pointers was decoded, two calls deep
C1_Witness ==
  /\ pcL = "done"
  /\ CyclicChain(start)
  /\ Cardinality(ChainTargets(start, payload.len + 1)) = 2
  /\ Cardinality(pointers) = 2
  /\ lres.err = ErrDecodeDnsLabelInvalidOffsetInfiniteLoop

\* the running frame needs an octet that lies outside the buffer
NeedsOutside ==
  /\ pcL = "loop"
  /\ \/ ~InBuf(Top.offset)
     \/ Octet(Top.offset) >= 192 /\ ~InBuf(Top.offset + 1)

\* C4: whenever the octets ParseLabels needs next lie outside the buffer, it
\* returns the invalid-offset error (and reads nothing at or beyond len).
C4_OutsideIsInvalidOffset ==
  [][NeedsOutside =>
       (pcL' = "ret" /\ retv'.err = ErrDecodeDnsLabelInvalidOffset)]_vars

\* the running frame is at a literal label of length L
AtLiteral ==
  /\ pcL = "loop"
  /\ InBuf(Top.offset)
  /\ Octet(Top.offset) > 0
  /\ Octet(Top.offset) < 192
\* the frame returns the label-too-short error
FailsTooShort == pcL' = "ret" /\ retv'.err = ErrDecodeDnsLabelTooShort
\* the label is extracted and the offset advances by L + 1
ExtractsLabel ==
  /\ pcL' = "loop"
  /\ Len(stack') = Len(stack)
  /\ stack'[Len(stack')].offset = Top.offset + Octet(Top.offset) + 1
  /\ stack'[Len(stack')].labels =
       Append(Top.labels, SubSeq(payload.data, Top.offset + 2,
                                 Top.offset + 1 + Octet(Top.offset)))

\* C5 as claimed: a literal label fails with the label-too-short error exactly
\* when its L bytes are not all in the buffer (o + 1 + L > len), and is
\* extracted otherwise.
C5_TooShortIffPastEnd ==
  [][AtLiteral =>
       IF Top.offset + 1 + Octet(Top.offset) > payload.len
       THEN FailsTooShort ELSE ExtractsLabel]_vars

\* C5 amended: a literal label fails with the label-too-short error exactly
\* when its L bytes and one further octet are not all in the buffer
\* (o + 1 + L >= len), and is extracted otherwise.
C5_TooShortIffNoNextOctet ==
  [][AtLiteral =>
       IF Top.offset + 1 + Octet(Top.offset) >= payload.len
       THEN FailsTooShort ELSE ExtractsLabel]_vars
\* a label that ends exactly at the last byte of the buffer was refused
C5_Witness ==
  /\ pcL = "done"
  /\ lres.err = ErrDecodeDnsLabelTooShort
  /\ InBuf(start)
  /\ Octet(start) > 0
  /\ Octet(start) < 192
  /\ start + 1 + Octet(start) = payload.len

\* the first and the second name both lead to the same pointer target
SharedTarget ==
  /\ second
  /\ start # first.start
  /\ ChainNext(start) # -1
  /\ ChainNext(start) \in first.pointers

\* C10: a second name of the packet that is complete decodes without error,
\* as did the first, also when both point to the same target: the visited
\* map of the first call is not seen by the second.
C10_FreshPerCall ==
  (pcL = "done" /\ SharedTarget
     /\ WellFormedName(start, payload.len)
     /\ WellFormedName(first.start, payload.len)) =>
       /\ lres.err = Nil
       /\ first.err = Nil
       /\ ChainNext(start) \in pointers
\* both names were decoded and share their pointer target
C10_Witness ==
  /\ pcL = "done"
  /\ SharedTarget
  /\ ChainNext(start) = ChainNext(first.start)
  /\ lres.err = Nil
  /\ first.err = Nil

\* ------------------------------------------------ inputs of the decoder
\* most resource records in a packet, and the largest record count asked for
MaxRecords == 3

\* a query for "a", type A, class IN: the name lies at offset 12
QuestionBytes == <<1, 97, 0, 0, 1, 0, 1>>
\* a compression pointer to the question name
PtrToQname == <<192, 12>>
\* where the answer section begins
AnswerStart == DnsLen + Len(QuestionBytes)

\* the flags word of a standard response, and the header around it
HeaderBytes(id, flags, counts) == id \o <<flags \div 256, flags % 256>> \o counts
StdHeader(ancount) ==
  HeaderBytes(<<18, 52>>, 33152, <<0, 1, ancount \div 256, ancount % 256, 0, 0, 0, 0>>)

\* headers: every single flag bit, all and none, some mixed words
FlagWords == {2 ^ k : k \in 0..15} \cup {0, 65535, 33152, 30720, 15, 34179}
HeaderIds == {<<0, 0>>, <<18, 52>>, <<255, 255>>}
HeaderCounts ==
  {<<0, 0, 0, 0, 0, 0, 0, 0>>, <<0, 1, 0, 2, 0, 3, 0, 4>>, <<1, 0, 2, 5, 128, 0, 255, 255>>}

\* a resource record as it is put on the wire
Record(name, type, ttl, rdata) == [name |-> name, type |-> type, ttl |-> ttl, rdata |-> rdata]
EncodeRecord(r) ==
  r.name \o <<r.type \div 256, r.type % 256, 0, 1>> \o r.ttl
         \o <<Len(r.rdata) \div 256, Len(r.rdata) % 256>> \o r.rdata
RECURSIVE EncodeRecords(_)
EncodeRecords(rs) == IF rs = <<>> THEN <<>> ELSE EncodeRecord(Head(rs)) \o EncodeRecords(Tail(rs))

Ttl300 == <<0, 0, 1, 44>>
Zeros(n) == [i \in 1..n |-> 0]
SoaNumbers == <<0, 0, 0, 7, 0, 0, 14, 16, 255, 255, 255, 255, 128, 0, 0, 0, 255, 0, 0, 1>>

\* owner names, types and rdata of the packets that hold one record
Names1 == {<<0>>, PtrToQname, <<1, 98>> \o PtrToQname}
Types1 == {1, 2, 5, 6, 12, 15, 16, 28, 33, 41, 99, 65280}
Rdatas1 ==
  {<<>>, <<0>>, <<5>>, PtrToQname, <<1, 2, 3, 4>>, <<1, 120>>, <<0, 1, 0>>, <<1, 99, 0>>,
   <<0, 10>> \o PtrToQname, <<0, 1, 0, 2, 0, 3>> \o PtrToQname, Zeros(16),
   PtrToQname \o PtrToQname \o SoaNumbers, PtrToQname \o PtrToQname \o <<0, 0>>}
Records1 == {Record(n, t, Ttl300, d) : <<n, t, d>> \in Names1 \X Types1 \X Rdatas1}

\* the records of the packets that hold several
RecordsN ==
  {Record(PtrToQname, 1, Ttl300, <<1, 2, 3, 4>>),
   Record(<<0>>, 41, <<0, 0, 128, 0>>, <<>>),
   Record(PtrToQname, 5, Ttl300, PtrToQname),
   Record(<<1, 98>> \o PtrToQname, 16, <<255, 255, 255, 255>>, <<1, 120>>),
   Record(<<0>>, 15, Ttl300, <<0, 10>> \o PtrToQname)}

\* a packet: its bytes, and how many of them the buffer holds (the rest is
\* capacity behind the buffer)
Packet(data, n, rs) == [payload |-> [data |-> data, len |-> n], recs |-> rs]

HeaderPackets ==
  {Packet(HeaderBytes(h[1], h[2], h[3]) \o QuestionBytes, n, <<>>) :
     <<h, n>> \in (HeaderIds \X FlagWords \X HeaderCounts) \X (0..AnswerStart)}

OneRecordPackets ==
  UNION {{Packet(StdHeader(1) \o QuestionBytes \o EncodeRecord(r), n, <<r>>) :
            n \in AnswerStart..(AnswerStart + Len(EncodeRecord(r)))} : r \in Records1}

RecordPackets ==
  {Packet(StdHeader(Len(rs)) \o QuestionBytes \o EncodeRecords(rs),
          AnswerStart + Len(EncodeRecords(rs)), rs) :
     rs \in SeqsUpTo(RecordsN, MaxRecords)}

Packets == HeaderPackets \cup OneRecordPackets \cup RecordPackets

InitD ==
  /\ \E pkt \in Packets : payload = pkt.payload /\ recs = pkt.recs
  /\ call = NoCall
  /\ res = [err |-> "none"]
  /\ chain = NoChain(0)
  /\ IdleL
  /\ IdleS
  /\ IdleF

\* where record k + 1 of the packet begins (k = Len(recs): where the section ends)
RecordStart(k) == AnswerStart + Len(EncodeRecords(SubSeq(recs, 1, k)))

\* ----------------------------------------------------- the decoder's calls
CallDecodeDns ==
  /\ call' = [op |-> "DecodeDns", ancount |-> 0, start_offset |-> 0]
  /\ res' = DecodeDns(payload)
  /\ chain' = NoChain(0)
  /\ UNCHANGED <<payload, varsF, recs, varsL, varsS>>

CallDecodeQuestion ==
  /\ call' = [op |-> "DecodeQuestion", ancount |-> 0, start_offset |-> 0]
  /\ res' = DecodeQuestion(payload)
  /\ chain' = NoChain(0)
  /\ UNCHANGED <<payload, varsF, recs, varsL, varsS>>

CallDecodeAnswer(ancount, start_offset) ==
  /\ call' = [op |-> "DecodeAnswer", ancount |-> ancount, start_offset |-> start_offset]
  /\ res' = DecodeAnswer(ancount, start_offset, payload)
  /\ chain' = NoChain(start_offset)
  /\ UNCHANGED <<payload, varsF, recs, varsL, varsS>>

\* the caller decodes the same section one record at a time:
\* answers_i, s_{i+1}, err := DecodeAnswer(1, s_i, payload), stopping at an error
ChainDecodeAnswer ==
  /\ call.op = "DecodeAnswer"
  /\ chain.n < call.ancount
  /\ chain.err = Nil
  /\ LET r == DecodeAnswer(1, chain.offset, payload) IN
       chain' = [n |-> chain.n + 1,
                 answers |-> chain.answers \o r.answers,
                 offset |-> r.offset,
                 err |-> r.err]
  /\ UNCHANGED <<payload, varsF, call, res, recs, varsL, varsS>>

NextD ==
  \/ CallDecodeDns
  \/ CallDecodeQuestion
  \/ \E ancount \in 0..MaxRecords, k \in 0..Len(recs) :
       CallDecodeAnswer(ancount, RecordStart(k))
  \/ ChainDecodeAnswer

SpecDecode == InitD /\ [][NextD]_vars

\* ------------------------------------------------ claims on the decoder
\* Read off the wire format alone, for stating the claims.
\* bit k of the flags word, k = 0 being the most significant
FlagBit(k) ==
  LET b == payload.data[3 + (k \div 8)] IN (b \div (2 ^ (7 - (k % 8)))) % 2
\* big-endian 16-bit word i of the buffer
WireWord(i) == payload.data[2 * i + 1] * 256 + payload.data[2 * i + 2]

\* C8: DecodeDns fails with the header-too-short error on every buffer shorter
\* than 12 bytes; on 12 bytes or more it returns, without error, id and counts
\* as the big-endian words 0, 2, 3, 4, 5 and the flags as the bits of word 1,
\* most significant first: QR, OPCODE(4), AA, TC, RD, RA, Z, AD, CD, RCODE(4);
\* the result is that of the first 12 bytes alone.
C8_HeaderLayout ==
  call.op = "DecodeDns" =>
    IF payload.len < 12
    THEN res.err = ErrDecodeDnsHeaderTooShort
    ELSE /\ res.err = Nil
         /\ res.dh.Id = WireWord(0)
         /\ res.dh.Qr = FlagBit(0)
         /\ res.dh.Opcode = 8 * FlagBit(1) + 4 * FlagBit(2) + 2 * FlagBit(3) + FlagBit(4)
         /\ res.dh.Aa = FlagBit(5)
         /\ res.dh.Tc = FlagBit(6)
         /\ res.dh.Rd = FlagBit(7)
         /\ res.dh.Ra = FlagBit(8)
         /\ res.dh.Z = FlagBit(9)
         /\ res.dh.Ad = FlagBit(10)
         /\ res.dh.Cd = FlagBit(11)
         /\ res.dh.Rcode = 8 * FlagBit(12) + 4 * FlagBit(13) + 2 * FlagBit(14) + FlagBit(15)
         /\ res.dh.Qdcount = WireWord(2)
         /\ res.dh.Ancount = WireWord(3)
         /\ res.dh.Nscount = WireWord(4)
         /\ res.dh.Arcount = WireWord(5)
         /\ res.dh.Opcode \in 0..15 /\ res.dh.Rcode \in 0..15
         /\ \A f \in {"Qr", "Aa", "Tc", "Rd", "Ra", "Z", "Ad", "Cd"} : res.dh[f] \in 0..1
         /\ res = DecodeDns([data |-> SubSeq(payload.data, 1, 12), len |-> 12])
\* a header with all four opcode bits set and the bits next to them clear was
\* decoded from a buffer longer than 12 bytes
C8_Witness ==
  /\ call.op = "DecodeDns"
  /\ payload.len > 12
  /\ WireWord(1) = 30720
  /\ res.err = Nil
  /\ res.dh.Opcode = 15
  /\ res.dh.Qr = 0
  /\ res.dh.Aa = 0

\* the record the last DecodeAnswer call began at is record CalledAt + 1
CalledAt == CHOOSE k \in 0..Len(recs) : RecordStart(k) = call.start_offset
IsOpt(r) == r.type = 41
\* the non-OPT records of rs, in wire order
RECURSIVE Ordinary(_)
Ordinary(rs) ==
  IF rs = <<>> THEN <<>>
  ELSE IF IsOpt(Head(rs)) THEN Ordinary(Tail(rs))
  ELSE <<Head(rs)>> \o Ordinary(Tail(rs))
\* the symbolic type of the records of RecordsN
TypeName(t) == CASE t = 1 -> "A" [] t = 5 -> "CNAME" [] t = 15 -> "MX" [] t = 16 -> "TXT"
                 [] OTHER -> "?"

\* C2: DecodeAnswer with ancount = 3 on a section of one OPT record and two
\* ordinary records returns the two ordinary records in wire order, and its
\* offset is the start offset plus the encoded size of all three records.
C2_OptSkipped ==
  (/\ call.op = "DecodeAnswer"
   /\ call.ancount = 3
   /\ call.start_offset = AnswerStart
   /\ Len(recs) = 3
   /\ Len(Ordinary(recs)) = 2
   /\ payload.len = Len(payload.data)) =>
     /\ res.err = Nil
     /\ Len(res.answers) = 2
     /\ \A i \in 1..2 : res.answers[i].Rdatatype = TypeName(Ordinary(recs)[i].type)
     /\ res.offset = AnswerStart + Len(EncodeRecords(recs))

\* C3: DecodeAnswer ends with a result or a typed decode error: a record whose
\* RDLENGTH bytes are all in the buffer never makes a parser abort the process.
C3_NoAbort ==
  (/\ call.op = "DecodeAnswer"
   /\ call.ancount = 1
   /\ CalledAt < Len(recs)
   /\ payload.len >= RecordStart(CalledAt + 1)) =>
     res.err \in {Nil, ErrDecodeDnsLabelInvalidOffset,
                  ErrDecodeDnsLabelInvalidOffsetInfiniteLoop, ErrDecodeDnsLabelTooShort,
                  ErrDecodeDnsAnswerTooShort, ErrDecodeDnsAnswerRdataTooShort}

\* how many of the records from record k + 1 on are ordinary, up to the first
\* OPT record, the end of the section or n records
RECURSIVE LeadingOrdinary(_, _)
LeadingOrdinary(k, n) ==
  IF n = 0 \/ k >= Len(recs) \/ IsOpt(recs[k + 1]) THEN 0
  ELSE 1 + LeadingOrdinary(k + 1, n - 1)

\* C9: after DecodeAnswer has decoded non-OPT records without error, its cursor
\* stands at (end of the owner name) + 10 + RDLENGTH of the last one decoded,
\* wherever the compression pointers in rdata lead.
C9_CursorAfterRecord ==
  (/\ call.op = "DecodeAnswer"
   /\ LeadingOrdinary(CalledAt, call.ancount) >= 1
   /\ res.err = Nil) =>
     LET m == LeadingOrdinary(CalledAt, call.ancount)
         r == recs[CalledAt + m]
     IN /\ Len(res.answers) = m
        /\ res.offset = RecordStart(CalledAt + m - 1) + Len(r.name) + 10 + Len(r.rdata)
\* a CNAME record whose owner name and rdata both point back to the question
\* name was decoded
C9_Witness ==
  /\ call.op = "DecodeAnswer"
  /\ call.ancount = 1
  /\ CalledAt < Len(recs)
  /\ recs[CalledAt + 1].type = 5
  /\ recs[CalledAt + 1].rdata = PtrToQname
  /\ res.err = Nil
  /\ Len(res.answers) = 1
  /\ res.answers[1].Rdata = <<97>>
  /\ res.offset = RecordStart(CalledAt + 1)

\* C11: when DecodeAnswer(M, s, payload) succeeds, M chained single-record
\* decodes, each begun at the offset the one before reported, all succeed and
\* yield, concatenated, the same answer list and the same final offset.
C11_ChainedEqualsSequential ==
  (/\ call.op = "DecodeAnswer"
   /\ res.err = Nil) =>
     /\ chain.err = Nil
     /\ Len(chain.answers) <= Len(res.answers)
     /\ chain.answers = SubSeq(res.answers, 1, Len(chain.answers))
     /\ chain.n = call.ancount => (chain.answers = res.answers /\ chain.offset = res.offset)
\* three ordinary records were decoded by one call with M = 3 and by three
\* chained calls, up to the end of the buffer
C11_Witness ==
  /\ call.op = "DecodeAnswer"
  /\ call.ancount = 3
  /\ call.start_offset = AnswerStart
  /\ res.err = Nil
  /\ Len(res.answers) = 3
  /\ chain.n = 3
  /\ Len(chain.answers) = 3
  /\ chain.answers[1].Rdatatype # chain.answers[3].Rdatatype
  /\ chain.offset = payload.len

\* ------------------------------------------------------ InfluxDB sink
\* Run is a goroutine of its own, Stop is called from the orchestrator's, the
\* producer queues messages on o.channel until Stop is called.  The fields
\* o.influxdbConn and o.writeAPI are read as last written.  done is an
\* unbuffered channel: a receive completes with the matching send.

\* messages the producer queues in all
MaxMsgs == 2
\* capacity of o.channel in the model (512 in NewInfluxDBClient)
ChannelCap == 2

InitS ==
  /\ payload = [data |-> <<>>, len |-> 0]
  /\ IdleL
  /\ IdleD
  /\ IdleS
  /\ IdleF

LogEntry(op, m) == [op |-> op, dm |-> m]

\* a panic anywhere aborts the process
Alive == pcS # "panic"

\* the orchestrator starts the goroutine: go o.Run()
RunLaunch ==
  /\ pcR = "off"
  /\ pcR' = "init"
  /\ UNCHANGED <<payload, varsF, varsL, varsD, channel, chClosed, doneClosed, influxdbConn,
                 writeAPI, pcS, dm, log, nsent, stopInLoop>>

\* the producer: o.Channel() <- dm, while Stop has not been called
Enqueue ==
  /\ pcS = "off"
  /\ nsent < MaxMsgs
  /\ Len(channel) < ChannelCap
  /\ channel' = Append(channel, nsent + 1)
  /\ nsent' = nsent + 1
  /\ UNCHANGED <<payload, varsF, varsL, varsD, chClosed, doneClosed, influxdbConn, writeAPI,
                 pcR, pcS, dm, log, stopInLoop>>

\* Run, up to o.influxdbConn = influxClient
RunAssignConn ==
  /\ Alive
  /\ pcR = "init"
  /\ influxdbConn' = "set"
  /\ pcR' = "assign_api"
  /\ UNCHANGED <<payload, varsF, varsL, varsD, channel, chClosed, doneClosed, writeAPI, pcS,
                 dm, log, nsent, stopInLoop>>

\* o.writeAPI = writeAPI
RunAssignAPI ==
  /\ Alive
  /\ pcR = "assign_api"
  /\ writeAPI' = "set"
  /\ pcR' = "range"
  /\ UNCHANGED <<payload, varsF, varsL, varsD, channel, chClosed, doneClosed, influxdbConn,
                 pcS, dm, log, nsent, stopInLoop>>

\* for dm := range o.channel: the next message
RunReceive ==
  /\ Alive
  /\ pcR = "range"
  /\ channel # <<>>
  /\ dm' = Head(channel)
  /\ channel' = Tail(channel)
  /\ pcR' = "write"
  /\ UNCHANGED <<payload, varsF, varsL, varsD, chClosed, doneClosed, influxdbConn, writeAPI,
                 pcS, log, nsent, stopInLoop>>

\* o.writeAPI.WritePoint(p)
RunWritePoint ==
  /\ Alive
  /\ pcR = "write"
  /\ log' = Append(log, LogEntry("WritePoint", dm))
  /\ pcR' = "range"
  /\ UNCHANGED <<payload, varsF, varsL, varsD, channel, chClosed, doneClosed, influxdbConn,
                 writeAPI, pcS, dm, nsent, stopInLoop>>

\* the range loop ends: the channel is closed and empty
RunRangeEnd ==
  /\ Alive
  /\ pcR = "range"
  /\ channel = <<>>
  /\ chClosed
  /\ pcR' = "send_done"
  /\ UNCHANGED <<payload, varsF, varsL, varsD, channel, chClosed, doneClosed, influxdbConn,
                 writeAPI, pcS, dm, log, nsent, stopInLoop>>

\* Stop is called once Run has been launched: up to close(o.channel)
StopCloseChannel ==
  /\ pcS = "off"
  /\ pcR # "off"
  /\ ~chClosed
  /\ chClosed' = TRUE
  /\ stopInLoop' = (pcR \in {"range", "write"})
  /\ pcS' = "flush"
  /\ UNCHANGED <<payload, varsF, varsL, varsD, channel, doneClosed, influxdbConn, writeAPI,
                 pcR, dm, log, nsent>>

\* o.writeAPI.Flush(): a nil interface panics
StopFlush ==
  /\ pcS = "flush"
  /\ IF writeAPI = "nil"
     THEN pcS' = "panic" /\ log' = log
     ELSE pcS' = "close" /\ log' = Append(log, LogEntry("Flush", 0))
  /\ UNCHANGED <<payload, varsF, varsL, varsD, channel, chClosed, doneClosed, influxdbConn,
                 writeAPI, pcR, dm, nsent, stopInLoop>>

\* o.influxdbConn.Close(): a nil interface panics
StopCloseConn ==
  /\ pcS = "close"
  /\ IF influxdbConn = "nil"
     THEN pcS' = "panic" /\ log' = log
     ELSE pcS' = "recv_done" /\ log' = Append(log, LogEntry("Close", 0))
  /\ UNCHANGED <<payload, varsF, varsL, varsD, channel, chClosed, doneClosed, influxdbConn,
                 writeAPI, pcR, dm, nsent, stopInLoop>>

\* <-o.done can complete: Run stands at o.done <- true
DoneReceivable_Always == TRUE
DoneReceivable == pcR = "send_done"

\* o.done <- true in Run and <-o.done in Stop, together
DoneHandoff ==
  /\ pcS = "recv_done"
  /\ DoneReceivable
  /\ pcS' = "close_done"
  /\ pcR' = IF pcR = "send_done" THEN "terminated" ELSE pcR
  /\ UNCHANGED <<payload, varsF, varsL, varsD, channel, chClosed, doneClosed, influxdbConn,
                 writeAPI, dm, log, nsent, stopInLoop>>

\* close(o.done), and Stop returns
StopCloseDone ==
  /\ pcS = "close_done"
  /\ doneClosed' = TRUE
  /\ pcS' = "returned"
  /\ UNCHANGED <<payload, varsF, varsL, varsD, channel, chClosed, influxdbConn, writeAPI,
                 pcR, dm, log, nsent, stopInLoop>>

RunStep == RunAssignConn \/ RunAssignAPI \/ RunReceive \/ RunWritePoint \/ RunRangeEnd \/ DoneHandoff
StopStep == StopFlush \/ StopCloseConn \/ DoneHandoff \/ StopCloseDone

NextS ==
  \/ RunLaunch
  \/ Enqueue
  \/ StopCloseChannel
  \/ RunAssignConn
  \/ RunAssignAPI
  \/ RunReceive
  \/ RunWritePoint
  \/ RunRangeEnd
  \/ StopFlush
  \/ StopCloseConn
  \/ DoneHandoff
  \/ StopCloseDone

\* a launched goroutine and a called Stop keep running when they can
SpecSink == InitS /\ [][NextS]_vars /\ WF_vars(RunStep) /\ WF_vars(StopStep)

\* -------------------------------------------------- claims on the sink
\* the messages handed to WritePoint before log entry i
WrittenBefore(i) == {log[j].dm : j \in {k \in 1..(i - 1) : log[k].op = "WritePoint"}}

\* C6: Flush and Close come only after the delivery loop has drained the
\* queue: every message queued before Stop closed the channel has been
\* handed to WritePoint before them, and no WritePoint follows them.
C6_FlushAfterDrain ==
  \A i \in 1..Len(log) :
    log[i].op \in {"Flush", "Close"} =>
      /\ (1..nsent) \subseteq WrittenBefore(i)
      /\ \A j \in (i + 1)..Len(log) : log[j].op # "WritePoint"

\* Stop is past <-o.done only when Run has left its loop and sent on done
C7_StopAfterRun == pcS \in {"close_done", "returned"} => pcR = "terminated"
\* C7: Stop, called while Run is in its delivery loop, returns only after Run
\* has left the loop and sent its completion signal, and under fair
\* scheduling Stop returns and Run terminates.
C7_StopWaitsForRun ==
  /\ []C7_StopAfterRun
  /\ (stopInLoop /\ pcS = "flush") ~> (pcS = "returned" /\ pcR = "terminated")
\* Stop was called while Run was in its loop with messages queued, and has
\* returned
C7_Witness ==
  /\ stopInLoop
  /\ pcS = "returned"
  /\ pcR = "terminated"
  /\ nsent = MaxMsgs
  /\ Len(log) = MaxMsgs + 2

\* Stop's call of Flush finds o.writeAPI assigned, its call of Close finds
\* o.influxdbConn assigned
C14_CallsOnAssigned ==
  /\ (pcS = "flush" /\ pcS' # "flush") => (writeAPI # "nil" /\ pcS' = "close")
  /\ (pcS = "close" /\ pcS' # "close") => (influxdbConn # "nil" /\ pcS' = "recv_done")
\* C14: with Run launched and Stop then called, in every interleaving Stop
\* calls Flush and Close only on fields Run has assigned, and Stop does not
\* wait forever on the done channel: once called it returns.
C14_StopAfterAssign ==
  /\ [][C14_CallsOnAssigned]_vars
  /\ (pcS = "flush") ~> (pcS = "returned")


\* ------------------------------------------------- inputs of the filter
\* most lines in the drop-query-IP file
MaxLines == 2

QueryIpLines == {<<"1">>, <<":", "A">>}
QueryIpFiles == {NoFile, Unreadable} \cup {Readable(l) : l \in SeqsUpTo(QueryIpLines, MaxLines)}
FqdnFiles ==
  {NoFile, Unreadable, Readable(<<>>), Readable(<< <<"a", ".", "b">> >>),
   Readable(<< <<"A", ".", "b">>, <<"b">> >>)}
\* regex lists: none, empty, anchored and wildcard patterns, an empty line, a
\* line that does not compile
DomainFiles ==
  {NoFile, Unreadable, Readable(<<>>), Readable(<< <<"^", "a">> >>),
   Readable(<< <<".", "B", "$">> >>), Readable(<< <<>> >>), Readable(<< <<"(">> >>)}
RcodeLists == {<<>>, <<"NOERROR">>, <<"NXDOMAIN", "SERVFAIL">>}
Configs ==
  [LogQueries : BOOLEAN, LogReplies : BOOLEAN, DropRcodes : RcodeLists,
   DropQueryIpFile : QueryIpFiles, DropFqdnFile : FqdnFiles, DropDomainFile : DomainFiles]
Messages ==
  [Type : {DnsQuery, DnsReply}, Rcode : {"NOERROR", "NXDOMAIN", "REFUSED"},
   Qname : {<<"a", ".", "b">>, <<"b">>, <<"c">>},
   QueryIp : {<<"1">>, <<":", "a">>, <<":", "A">>, <<"2">>}]

InitF ==
  /\ payload = [data |-> <<>>, len |-> 0]
  /\ IdleL
  /\ IdleD
  /\ IdleS
  /\ fconfig \in Configs
  /\ proc = NewProcessor
  /\ pcF = "off"
  /\ fdm = NoMessage
  /\ fret = "none"

\* filtering := NewFilteringProcessor(config, logger)
CallNewFilteringProcessor ==
  /\ pcF = "off"
  /\ LET d == NewFilteringProcessor(fconfig) IN
       /\ proc' = d
       /\ pcF' = IF d.err = Panic THEN "panic" ELSE "ready"
  /\ UNCHANGED <<payload, varsL, varsD, varsS, fconfig, fdm, fret>>

\* the pipeline hands the next decoded message to the filter
Receive(m) ==
  /\ pcF = "ready"
  /\ fdm' = m
  /\ fret' = "none"
  /\ UNCHANGED <<payload, varsL, varsD, varsS, fconfig, proc, pcF>>

\* the bool CheckIfDrop returns
BoolString(b) == IF b THEN "true" ELSE "false"

\* filtering.CheckIfDrop(&dm)
CallCheckIfDrop ==
  /\ pcF = "ready"
  /\ fdm \in Messages
  /\ fret = "none"
  /\ fret' = BoolString(CheckIfDrop(proc, fconfig, fdm))
  /\ UNCHANGED <<payload, varsL, varsD, varsS, fconfig, proc, pcF, fdm>>

NextF ==
  \/ CallNewFilteringProcessor
  \/ \E m \in Messages : Receive(m)
  \/ CallCheckIfDrop

SpecFilter == InitF /\ [][NextF]_vars

\* ------------------------------------------------ claims on the filter
\* nothing is loaded from a list file: not configured, not readable or empty
NothingLoaded(f) == ~f.configured \/ ~f.readable \/ f.lines = <<>>
\* the rcodes the config asks to drop
RcodesToDrop == {fconfig.DropRcodes[i] : i \in 1..Len(fconfig.DropRcodes)}
\* logging is enabled for the kind of message the caller holds
LoggingEnabled ==
  \/ fdm.Type = DnsQuery /\ fconfig.LogQueries
  \/ fdm.Type = DnsReply /\ fconfig.LogReplies

C12_Decision ==
  (pcF = "ready" /\ fret # "none") =>
    /\ (fdm.Type = DnsQuery /\ ~fconfig.LogQueries) => fret = "true"
    /\ (fdm.Type = DnsReply /\ ~fconfig.LogReplies) => fret = "true"
    /\ fdm.Rcode \in RcodesToDrop => fret = "true"
    /\ (/\ LoggingEnabled
        /\ RcodesToDrop = {}
        /\ NothingLoaded(fconfig.DropQueryIpFile)
        /\ NothingLoaded(fconfig.DropFqdnFile)
        /\ NothingLoaded(fconfig.DropDomainFile)) => fret = "false"
\* a step that yields a result of CheckIfDrop leaves the message, the
\* processor and its lists as they were
C12_ReadOnly == (fret' # fret /\ fret' # "none") => (fdm' = fdm /\ proc' = proc)
\* C12: CheckIfDrop returns true for a query while LogQueries is false, for a
\* reply while LogReplies is false and for a message whose rcode is in
\* DropRcodes; it returns false when logging is enabled for the message's
\* type, DropRcodes is empty and no drop list is loaded; it changes neither
\* the message nor the processor's lists.
C12_CheckIfDrop == []C12_Decision /\ [][C12_ReadOnly]_vars
\* a reply was dropped for LogReplies = false alone, and a processor with
\* a loaded fqdn list was left as constructed
C12_Witness ==
  /\ pcF = "ready"
  /\ fret = "true"
  /\ fdm.Type = DnsReply
  /\ ~fconfig.LogReplies
  /\ fconfig.LogQueries
  /\ fdm.Rcode \notin RcodesToDrop
  /\ fdm.Qname = <<"c">>
  /\ proc.listFqdns.keys = {<<"a", ".", "b">>, <<"b">>}

\* C13: when a drop-query-IP file is configured and readable (and every
\* configured regex compiles), NewFilteringProcessor completes, and CheckIfDrop
\* then returns true for every message whose query IP is a lower-cased line
\* of the file.
C13_QueryIpListLoaded ==
  (/\ pcF # "off"
   /\ fconfig.DropQueryIpFile.configured
   /\ fconfig.DropQueryIpFile.readable
   /\ ~RegexPanics(MakeMap, fconfig.DropDomainFile.lines)) =>
     /\ pcF = "ready"
     /\ fconfig.DropQueryIpFile.lines # <<>> => ~proc.listQueryIp.isnil
     /\ (/\ fret # "none"
         /\ \E i \in 1..Len(fconfig.DropQueryIpFile.lines) :
              fdm.QueryIp = ToLower(fconfig.DropQueryIpFile.lines[i])) => fret = "true"

=============================================================================
